---- MODULE Spec2Model ----
(***************************************************************************)
(* Model of neuronet::GrafoDisperso (src/src/cpp/GrafoDisperso.cpp): the   *)
(* CSR construction of cargarDatos, the accessors, and the bounded BFS and *)
(* iterative DFS traversals.  C++ vectors are modelled as functions over   *)
(* 0..n-1 (the empty vector is << >>), so indices are the code's indices.  *)
(***************************************************************************)
EXTENDS Integers, Sequences, FiniteSets, TLC

\* ------------------------------------------------------------------ bounds
MaxNodeId == 2      \* node ids that occur in input lines are -1..MaxNodeId
MaxLines  == 2      \* total number of input lines the environment supplies
MaxEdges  == 3      \* edges of the graph the traversals run on
MaxDepth  == 2      \* largest non-negative profundidadMaxima a caller passes
SizeTBits == 16     \* modelled width of size_t (only compared with levels)

\* ------------------------------------------------------------------- state
VARIABLES
    totalNodos, totalAristas, ultimoTiempoCargaMs,   \* GrafoBase.hpp:44-46
    rowPtr, colIndices, grados,                      \* GrafoBase.hpp:47-49
    pc,            \* "idle", "bfs", "dfs1", "dfs" (inside a loop), "ret"
    llamada,       \* the call in progress or just returned
    retorno,       \* the value the last call returned
    stderrMsg,     \* what the last call wrote to std::cerr
    visitado, cola, stack, pila, resultado,  \* locals of the traversals
    aceptadas,     \* the vector `aristas` of the last load that succeeded
    lineasSuministradas, \* input lines read so far over all loads
    fallosVistos   \* (cause, returned value) of the failed loads so far

objeto == <<totalNodos, totalAristas, ultimoTiempoCargaMs, rowPtr, colIndices, grados>>

locales == <<visitado, cola, stack, pila, resultado>>

vars == <<totalNodos, totalAristas, ultimoTiempoCargaMs, rowPtr, colIndices,
          grados, pc, llamada, retorno, stderrMsg, visitado, cola, stack,
          pila, resultado, aceptadas, lineasSuministradas, fallosVistos>>

\* ------------------------------------------------------------ input lines
\* A line is a sequence of whitespace-separated tokens: a decimal integer,
\* a '#'-prefixed token, or a token that is not a number.
Num(n) == [t |-> "num", v |-> n]

Hash == [t |-> "hash", v |-> 0]

Junk == [t |-> "junk", v |-> 0]

LineasInvalidas ==
    { << >>, <<Hash>>, <<Junk>>, <<Num(0), Junk>>,
      <<Num(-1), Num(0)>>, <<Num(0), Num(-1)>> }

LineasValidas ==
    { <<Num(o), Num(d)>> : o \in 0..MaxNodeId, d \in 0..MaxNodeId }
      \cup { <<Num(0), Num(1), Junk>> }

Lineas == LineasInvalidas \cup LineasValidas

RECURSIVE SeqsHasta(_, _)
SeqsHasta(S, n) ==
    IF n = 0 THEN { << >> }
    ELSE LET prev == SeqsHasta(S, n - 1)
         IN  prev \cup { Append(s, x) : s \in { p \in prev : Len(p) = n - 1 }, x \in S }

\* sscanf(buffer, "%d %d", &origen, &destino) == 2
SscanfDos(linea) ==
    /\ Len(linea) >= 2
    /\ linea[1].t = "num"
    /\ linea[2].t = "num"

\* One iteration of the fgets loop: the edge the line contributes, if any.
LineaAceptada(linea) ==
    /\ ~(Len(linea) = 0)                    \* buffer[0] == '\n'
    /\ ~(linea[1].t = "hash")               \* buffer[0] == '#'
    /\ SscanfDos(linea)
    /\ ~(linea[1].v < 0 \/ linea[2].v < 0)

RECURSIVE LeerAristas(_, _, _)
LeerAristas(archivo, k, aristas) ==
    IF k > Len(archivo) THEN aristas
    ELSE LeerAristas(archivo, k + 1,
            IF LineaAceptada(archivo[k])
            THEN Append(aristas, <<archivo[k][1].v, archivo[k][2].v>>)
            ELSE aristas)

Max2(a, b) == IF a > b THEN a ELSE b

\* variant: the destination never raises the maximum
ActualizaMaxIdSoloOrigen(maxId, origen, destino) == Max2(maxId, origen)

\* the running maximum kept in maxId (starts at -1)
ActualizaMaxId(maxId, origen, destino) == Max2(Max2(maxId, origen), destino)

RECURSIVE MaxIdDe(_, _, _)
MaxIdDe(aristas, k, maxId) ==
    IF k > Len(aristas) THEN maxId
    ELSE MaxIdDe(aristas, k + 1, ActualizaMaxId(maxId, aristas[k][1], aristas[k][2]))

\* --------------------------------------------------------------- CSR build
VectorDe(n, x) == [i \in 0..(n - 1) |-> x]

RECURSIVE ContarGrados(_, _, _)
ContarGrados(aristas, k, g) ==
    IF k > Len(aristas) THEN g
    ELSE ContarGrados(aristas, k + 1, [g EXCEPT ![aristas[k][1]] = @ + 1])

RECURSIVE Prefijos(_, _, _, _)
Prefijos(rp, i, n, g) ==
    IF i >= n THEN rp
    ELSE Prefijos([rp EXCEPT ![i + 1] = rp[i] + g[i]], i + 1, n, g)

\* variant: a node's block is filled from its end
PosicionDesdeElFinal(rp, offset, u) == rp[u + 1] - 1 - offset[u]

\* where the k-th edge of origin u lands
Posicion(rp, offset, u) == rp[u] + offset[u]

RECURSIVE LlenarCSR(_, _, _, _, _)
LlenarCSR(aristas, k, rp, col, offset) ==
    IF k > Len(aristas) THEN col
    ELSE LET u == aristas[k][1]
             v == aristas[k][2]
         IN  LlenarCSR(aristas, k + 1, rp,
                       [col EXCEPT ![Posicion(rp, offset, u)] = v],
                       [offset EXCEPT ![u] = @ + 1])

\* ---------------------------------------------------------------- queries
Vacio == << >>

ResultadoVacio == [nodos |-> << >>, aristas_origen |-> << >>, aristas_destino |-> << >>]

NodoFueraDeRango(nodo) == nodo < 0 \/ nodo >= totalNodos

\* colIndices[rowPtr[nodo] .. rowPtr[nodo+1]) as a sequence
Rebanada(desde, hasta) == [j \in 1..(hasta - desde) |-> colIndices[desde + j - 1]]

ObtenerVecinos(nodo) ==
    IF NodoFueraDeRango(nodo) THEN << >>
    ELSE Rebanada(rowPtr[nodo], rowPtr[nodo + 1])

RECURSIVE MejorNodo(_, _, _)
MejorNodo(i, mejorNodo, mejorGrado) ==
    IF i >= totalNodos THEN mejorNodo
    ELSE IF grados[i] > mejorGrado THEN MejorNodo(i + 1, i, grados[i])
         ELSE MejorNodo(i + 1, mejorNodo, mejorGrado)

ObtenerNodoMayorGrado ==
    IF grados = << >> THEN -1 ELSE MejorNodo(1, 0, grados[0])

\* static_cast of the caller's integer to size_t
ToSizeT(n) == n % (2 ^ SizeTBits)

\* ------------------------------------------------------------------- Init
Init ==
    /\ totalNodos = 0
    /\ totalAristas = 0
    /\ ultimoTiempoCargaMs = 0
    /\ rowPtr = << >>
    /\ colIndices = << >>
    /\ grados = << >>
    /\ pc = "idle"
    /\ llamada = [op |-> "constructor"]
    /\ retorno = Vacio
    /\ stderrMsg = ""
    /\ visitado = << >>
    /\ cola = << >>
    /\ stack = << >>
    /\ pila = << >>
    /\ resultado = ResultadoVacio
    /\ aceptadas = << >>
    /\ lineasSuministradas = 0
    /\ fallosVistos = {}

\* ------------------------------------------------------- cargarDatos (load)
MsgAbrir == "Error abriendo archivo"

MsgVacio == "Archivo vacio o sin datos validos"

\* variant: the check never fires
SinDatosValidosNunca(maxId) == maxId < -1

\* the check after the read loop: no accepted line ever raised maxId
SinDatosValidos(maxId) == maxId < 0

\* variant: the early returns report success
RetornoFalloVerdadero == TRUE

\* what the two early returns hand back
RetornoFallo == FALSE

\* the wall-clock durations a load may measure (two clock readings apart)
Duraciones == {1, 2}

\* the set of files with at most n lines
Archivos(n) == SeqsHasta(Lineas, n)

\* cargarDatos(ruta), entry to return, on a path that opens (abre) to the
\* lines of `archivo`, with `dur` the measured wall-clock duration.
Cargar(abre, archivo, dur) ==
    /\ pc = "idle"
    /\ pc' = "ret"
    /\ llamada' = [op |-> "cargarDatos", abre |-> abre,
                   lineasValidas |-> Len(LeerAristas(archivo, 1, << >>))]
    /\ UNCHANGED locales
    /\ IF ~abre
       THEN /\ stderrMsg' = MsgAbrir
            /\ retorno' = RetornoFallo
            /\ fallosVistos' = fallosVistos \cup {<<"abrir", RetornoFallo>>}
            /\ UNCHANGED <<objeto, aceptadas, lineasSuministradas>>
       ELSE LET aristas == LeerAristas(archivo, 1, << >>)
                maxId   == MaxIdDe(aristas, 1, -1)
            IN  /\ lineasSuministradas' = lineasSuministradas + Len(archivo)
                /\ IF SinDatosValidos(maxId)
                   THEN /\ stderrMsg' = MsgVacio
                        /\ retorno' = RetornoFallo
                        /\ fallosVistos' = fallosVistos \cup {<<"vacio", RetornoFallo>>}
                        /\ UNCHANGED <<objeto, aceptadas>>
                   ELSE LET n  == maxId + 1
                            g  == ContarGrados(aristas, 1, VectorDe(n, 0))
                            rp == Prefijos(VectorDe(n + 1, 0), 0, n, g)
                        IN  /\ totalNodos' = n
                            /\ totalAristas' = Len(aristas)
                            /\ grados' = g
                            /\ rowPtr' = rp
                            /\ colIndices' = LlenarCSR(aristas, 1, rp,
                                                VectorDe(Len(aristas), 0), VectorDe(n, 0))
                            /\ ultimoTiempoCargaMs' = dur
                            /\ stderrMsg' = ""
                            /\ retorno' = TRUE
                            /\ aceptadas' = aristas
                            /\ UNCHANGED fallosVistos

CargarDatos ==
    \E archivo \in Archivos(MaxLines - lineasSuministradas), dur \in Duraciones :
        Cargar(TRUE, archivo, dur)

CargarDatosSinArchivo == Cargar(FALSE, << >>, 1)

\* the caller takes the returned value; the object is ready for the next call
Retornar ==
    /\ pc = "ret"
    /\ pc' = "idle"
    /\ llamada' = [op |-> "ninguna"]
    /\ retorno' = Vacio
    /\ stderrMsg' = ""
    /\ UNCHANGED <<objeto, locales, aceptadas, lineasSuministradas, fallosVistos>>

\* ---------------------------------------------------------------- accessors
Consulta(ll, valor) ==
    /\ pc = "idle"
    /\ pc' = "ret"
    /\ llamada' = ll
    /\ retorno' = valor
    /\ stderrMsg' = ""
    /\ UNCHANGED <<objeto, locales, aceptadas, lineasSuministradas, fallosVistos>>

Nodos == -1..(MaxNodeId + 1)

LlamarObtenerVecinos ==
    \E nodo \in Nodos :
        Consulta([op |-> "obtenerVecinos", nodo |-> nodo], ObtenerVecinos(nodo))

LlamarObtenerNodoMayorGrado ==
    Consulta([op |-> "obtenerNodoMayorGrado"], ObtenerNodoMayorGrado)

LlamarObtenerTotales ==
    Consulta([op |-> "obtenerTotales"], <<totalNodos, totalAristas, ultimoTiempoCargaMs>>)

\* --------------------------------------------------------------- traversal
Profundidades == -1..MaxDepth

\* the guard both traversals open with
OrigenInvalido(origen) == totalNodos = 0 \/ origen < 0 \/ origen >= totalNodos

\* variant: nodes at the depth limit are still expanded
NoExpandirEstricto(nivel, profundidadMaxima) == nivel > profundidadMaxima

\* `if (nivel >= profundidadMaxima) continue;`
NoExpandir(nivel, profundidadMaxima) == nivel >= profundidadMaxima

\* variant: the edge is recorded only when the neighbour is new
BfsVecinoSoloNuevos(st, nodo, nivel, vecino) ==
    IF st.vis[vecino] = 0
    THEN [vis  |-> [st.vis EXCEPT ![vecino] = 1],
          res  |-> [st.res EXCEPT !.nodos = Append(@, vecino),
                                  !.aristas_origen = Append(@, nodo),
                                  !.aristas_destino = Append(@, vecino)],
          cola |-> Append(st.cola, <<vecino, nivel + 1>>)]
    ELSE st

\* body of the BFS for-loop for one neighbour; st = [vis, res, cola]
BfsVecino(st, nodo, nivel, vecino) ==
    LET res1 == [st.res EXCEPT !.aristas_origen = Append(@, nodo),
                               !.aristas_destino = Append(@, vecino)]
    IN  IF st.vis[vecino] = 0
        THEN [vis  |-> [st.vis EXCEPT ![vecino] = 1],
              res  |-> [res1 EXCEPT !.nodos = Append(@, vecino)],
              cola |-> Append(st.cola, <<vecino, nivel + 1>>)]
        ELSE [st EXCEPT !.res = res1]

RECURSIVE BfsExpandir(_, _, _, _, _)
BfsExpandir(st, nodo, nivel, i, fin) ==
    IF i >= fin THEN st
    ELSE BfsExpandir(BfsVecino(st, nodo, nivel, colIndices[i]), nodo, nivel, i + 1, fin)

\* bfsConDetalle: entry, guard, initialisation
BfsLlamar ==
    \E origen \in Nodos, prof \in Profundidades :
        /\ pc = "idle"
        /\ llamada' = [op |-> "bfs", origen |-> origen, prof |-> prof,
                       profundidadMaxima |-> ToSizeT(prof)]
        /\ stderrMsg' = ""
        /\ UNCHANGED <<objeto, stack, pila, aceptadas, lineasSuministradas, fallosVistos>>
        /\ IF OrigenInvalido(origen)
           THEN /\ pc' = "ret"
                /\ retorno' = ResultadoVacio
                /\ UNCHANGED <<visitado, cola, resultado>>
           ELSE /\ pc' = "bfs"
                /\ visitado' = [VectorDe(totalNodos, 0) EXCEPT ![origen] = 1]
                /\ cola' = << <<origen, 0>> >>
                /\ resultado' = [ResultadoVacio EXCEPT !.nodos = <<origen>>]
                /\ UNCHANGED retorno

\* one iteration of `while (!cola.empty())`
BfsIterar ==
    /\ pc = "bfs"
    /\ cola # << >>
    /\ LET nodo  == Head(cola)[1]
           nivel == Head(cola)[2]
           st0   == [vis |-> visitado, res |-> resultado, cola |-> Tail(cola)]
           st1   == IF NoExpandir(nivel, llamada.profundidadMaxima) THEN st0
                    ELSE BfsExpandir(st0, nodo, nivel, rowPtr[nodo], rowPtr[nodo + 1])
       IN  /\ visitado' = st1.vis
           /\ resultado' = st1.res
           /\ cola' = st1.cola
    /\ UNCHANGED <<objeto, pc, llamada, retorno, stderrMsg, stack, pila,
                   aceptadas, lineasSuministradas, fallosVistos>>

\* the loop ends and the function returns `resultado`
Terminar(etiqueta, contenedor) ==
    /\ pc = etiqueta
    /\ contenedor = << >>
    /\ pc' = "ret"
    /\ retorno' = resultado
    /\ visitado' = << >>
    /\ resultado' = ResultadoVacio
    /\ UNCHANGED <<objeto, llamada, stderrMsg, cola, stack, pila,
                   aceptadas, lineasSuministradas, fallosVistos>>

BfsRetornar == Terminar("bfs", cola)

\* dfsConDetalle: entry, guard, and the set-up of the first loop
DfsLlamar ==
    \E origen \in Nodos, prof \in Profundidades :
        /\ pc = "idle"
        /\ llamada' = [op |-> "dfs", origen |-> origen, prof |-> prof,
                       profundidadMaxima |-> ToSizeT(prof)]
        /\ stderrMsg' = ""
        /\ UNCHANGED <<objeto, cola, pila, aceptadas, lineasSuministradas, fallosVistos>>
        /\ IF OrigenInvalido(origen)
           THEN /\ pc' = "ret"
                /\ retorno' = ResultadoVacio
                /\ UNCHANGED <<visitado, stack, resultado>>
           ELSE /\ pc' = "dfs1"
                /\ visitado' = VectorDe(totalNodos, 0)
                /\ stack' = << <<origen, 0>> >>
                /\ resultado' = ResultadoVacio
                /\ UNCHANGED retorno

\* one iteration of the first loop, `while (!stack.empty())`: its for-loop
\* over the neighbours has an empty body, so nothing is ever pushed
DfsIterarPrimero ==
    /\ pc = "dfs1"
    /\ stack # << >>
    /\ LET nodo == stack[Len(stack)][1]
       IN  /\ stack' = SubSeq(stack, 1, Len(stack) - 1)
           /\ IF visitado[nodo] = 1
              THEN UNCHANGED <<visitado, resultado>>
              ELSE /\ visitado' = [visitado EXCEPT ![nodo] = 1]
                   /\ resultado' = [resultado EXCEPT !.nodos = Append(@, nodo)]
    /\ UNCHANGED <<objeto, pc, llamada, retorno, stderrMsg, cola, pila,
                   aceptadas, lineasSuministradas, fallosVistos>>

\* the first loop ended: clear everything and start over with parent frames
DfsReiniciar ==
    /\ pc = "dfs1"
    /\ stack = << >>
    /\ pc' = "dfs"
    /\ resultado' = [resultado EXCEPT !.nodos = << >>]
    /\ visitado' = VectorDe(totalNodos, 0)
    /\ stack' = << >>
    /\ pila' = << [nodo |-> llamada.origen, nivel |-> 0, padre |-> -1] >>
    /\ UNCHANGED <<objeto, llamada, retorno, stderrMsg, cola,
                   aceptadas, lineasSuministradas, fallosVistos>>

\* variant: a popped frame is never discarded
DfsDescartarNunca(vis, nodo) == FALSE

\* `if (visitado[f.nodo]) continue;`
DfsDescartar(vis, nodo) == vis[nodo] = 1

\* variant: the source's sentinel parent is recorded like any other
DfsRegistraAristaSiempre(f) == TRUE

\* `if (f.padre != -1)`: the frame records the edge (padre, nodo)
DfsRegistraArista(f) == f.padre # -1

\* variant: the neighbours are pushed first to last
IndicesApiladosEnOrden(inicio, fin) == [k \in 1..(fin - inicio) |-> inicio + k - 1]

\* the indices i - 1 that `for (i = fin; i > inicio; --i)` reads, in order
IndicesApilados(inicio, fin) == [k \in 1..(fin - inicio) |-> fin - k]

RECURSIVE DfsApilar(_, _, _, _, _)
DfsApilar(p, f, vis, indices, k) ==
    IF k > Len(indices) THEN p
    ELSE LET vecino == colIndices[indices[k]]
         IN  DfsApilar(IF vis[vecino] = 0
                       THEN Append(p, [nodo |-> vecino, nivel |-> f.nivel + 1, padre |-> f.nodo])
                       ELSE p,
                       f, vis, indices, k + 1)

\* one iteration of `while (!pila.empty())`
DfsIterar ==
    /\ pc = "dfs"
    /\ pila # << >>
    /\ LET f    == pila[Len(pila)]
           p0   == SubSeq(pila, 1, Len(pila) - 1)
       IN  IF DfsDescartar(visitado, f.nodo)
           THEN /\ pila' = p0
                /\ UNCHANGED <<visitado, resultado>>
           ELSE LET vis1 == [visitado EXCEPT ![f.nodo] = 1]
                    res1 == [resultado EXCEPT !.nodos = Append(@, f.nodo)]
                    res2 == IF DfsRegistraArista(f)
                            THEN [res1 EXCEPT !.aristas_origen = Append(@, f.padre),
                                              !.aristas_destino = Append(@, f.nodo)]
                            ELSE res1
                IN  /\ visitado' = vis1
                    /\ resultado' = res2
                    /\ pila' = IF NoExpandir(f.nivel, llamada.profundidadMaxima) THEN p0
                               ELSE DfsApilar(p0, f, vis1,
                                      IndicesApilados(rowPtr[f.nodo], rowPtr[f.nodo + 1]), 1)
    /\ UNCHANGED <<objeto, pc, llamada, retorno, stderrMsg, cola, stack,
                   aceptadas, lineasSuministradas, fallosVistos>>

DfsRetornar == Terminar("dfs", pila)

\* ------------------------------------------------- the traversal scenario
\* Files of valid lines only, grouped by origin: every CSR structure with at
\* most MaxEdges edges over 0..MaxNodeId is the image of exactly one of them.
Aristas == (0..MaxNodeId) \X (0..MaxNodeId)

Agrupado(as) == \A i \in 1..(Len(as) - 1) : as[i][1] <= as[i + 1][1]

LineaDe(a) == <<Num(a[1]), Num(a[2])>>

ArchivosAgrupados ==
    { [k \in 1..Len(as) |-> LineaDe(as[k])] :
        as \in { x \in SeqsHasta(Aristas, MaxEdges) : Len(x) > 0 /\ Agrupado(x) } }

CargarGrafo ==
    /\ aceptadas = << >>
    /\ \E archivo \in ArchivosAgrupados : Cargar(TRUE, archivo, 1)

NextTrav ==
    \/ CargarGrafo
    \/ Retornar
    \/ LlamarObtenerVecinos
    \/ BfsLlamar
    \/ BfsIterar
    \/ BfsRetornar
    \/ DfsLlamar
    \/ DfsIterarPrimero
    \/ DfsReiniciar
    \/ DfsIterar
    \/ DfsRetornar

SpecTrav == Init /\ [][NextTrav]_vars

Next ==
    \/ CargarDatos
    \/ CargarDatosSinArchivo
    \/ Retornar
    \/ LlamarObtenerVecinos
    \/ LlamarObtenerNodoMayorGrado
    \/ LlamarObtenerTotales

Spec == Init /\ [][Next]_vars

\* the loops of the traversals run to completion once entered
SpecTravFair == SpecTrav /\ WF_vars(BfsIterar \/ BfsRetornar \/ DfsIterarPrimero
                                    \/ DfsReiniciar \/ DfsIterar \/ DfsRetornar)

\* ------------------------------------------------- the graph, read from CSR
Rango(seq) == { seq[i] : i \in DOMAIN seq }

SinRepetidos(seq) == Cardinality(Rango(seq)) = Len(seq)

Sucesores(u) == { colIndices[i] : i \in rowPtr[u]..(rowPtr[u + 1] - 1) }

RECURSIVE Alcance(_, _)
\* the nodes at hop-distance <= k from s
Alcance(s, k) ==
    IF k = 0 THEN {s}
    ELSE LET prev == Alcance(s, k - 1)
         IN  prev \cup UNION { Sucesores(u) : u \in prev }

Min2(a, b) == IF a < b THEN a ELSE b

\* no shortest path has more than totalNodos - 1 hops
DentroDe(s, d) == Alcance(s, Min2(d, totalNodos))

Distancia(s, v) == CHOOSE k \in 0..totalNodos : v \in Alcance(s, k) /\ (k = 0 \/ v \notin Alcance(s, k - 1))

Pares(res) == [j \in 1..Len(res.aristas_origen) |-> <<res.aristas_origen[j], res.aristas_destino[j]>>]

Indice(seq, x) == CHOOSE i \in DOMAIN seq : seq[i] = x

Retornado(op) == pc = "ret" /\ llamada.op = op

TravValido(op) ==
    /\ Retornado(op)
    /\ ~OrigenInvalido(llamada.origen)
    /\ llamada.prof >= 0

\* ---------------------------------------------------------------------- C1
\* C1: for a valid source s and maxDepth d >= 0, the node list bfs(s, d)
\* returns holds each node once, and holds exactly the nodes whose shortest
\* hop-distance from s is <= d.
C1_BfsNodosDentroDeD ==
    TravValido("bfs") =>
        /\ SinRepetidos(retorno.nodos)
        /\ Rango(retorno.nodos) = DentroDe(llamada.origen, llamada.prof)

\* a bounded search that stopped short: some reachable node lies beyond d
C1_Witness ==
    /\ TravValido("bfs")
    /\ llamada.prof >= 1
    /\ Len(retorno.nodos) >= 2
    /\ DentroDe(llamada.origen, llamada.prof) # DentroDe(llamada.origen, totalNodos)

\* ---------------------------------------------------------------------- C2
RECURSIVE AristasDe(_, _, _)
AristasDe(u, vecinos, k) ==
    IF k > Len(vecinos) THEN << >>
    ELSE <<(<<u, vecinos[k]>>)>> \o AristasDe(u, vecinos, k + 1)

RECURSIVE AristasEsperadas(_, _, _, _)
\* (node, neighbour) for every neighbour of every node of `nodos` closer than d
AristasEsperadas(nodos, k, s, d) ==
    IF k > Len(nodos) THEN << >>
    ELSE (IF Distancia(s, nodos[k]) < d
          THEN AristasDe(nodos[k], ObtenerVecinos(nodos[k]), 1)
          ELSE << >>) \o AristasEsperadas(nodos, k + 1, s, d)

\* C2: the frontier is dequeued in the order of the node list, each node at
\* its hop-distance; the induced edges bfs(s, d) returns are, in that order,
\* (node, neighbour) for every CSR neighbour of every node dequeued at depth
\* < d, visited or not; bfs(s, 0) returns [s] and no edges.
C2_BfsAristas ==
    /\ (pc = "bfs" /\ llamada.prof >= 0) =>
          /\ Len(cola) <= Len(resultado.nodos)
          /\ \A i \in 1..Len(cola) :
                /\ cola[i][1] = resultado.nodos[Len(resultado.nodos) - Len(cola) + i]
                /\ cola[i][2] = Distancia(llamada.origen, cola[i][1])
    /\ TravValido("bfs") =>
          /\ Pares(retorno) = AristasEsperadas(retorno.nodos, 1, llamada.origen, llamada.prof)
          /\ llamada.prof = 0 =>
                retorno = [ResultadoVacio EXCEPT !.nodos = <<llamada.origen>>]

\* an edge to an already visited node was recorded, and a node at depth d
\* with out-edges was left unexpanded
C2_Witness ==
    /\ TravValido("bfs")
    /\ \E j \in DOMAIN retorno.aristas_destino :
          Indice(retorno.nodos, retorno.aristas_destino[j])
             <= Indice(retorno.nodos, retorno.aristas_origen[j])
    /\ \E v \in Rango(retorno.nodos) :
          /\ Distancia(llamada.origen, v) = llamada.prof
          /\ Sucesores(v) # {}

\* ---------------------------------------------------------------------- C3
\* C3: when dfs(s, d) reached every node reachable from s, it returns
\* visitedCount - 1 edges that form a tree rooted at s: the j-th edge leads
\* to the (j+1)-th visited node (so each node but s is a destination once
\* and s never), is an edge of the graph, and leaves from a node visited
\* earlier.
C3_DfsArbol ==
    (TravValido("dfs")
       /\ Rango(retorno.nodos) = DentroDe(llamada.origen, totalNodos)) =>
        /\ Len(retorno.aristas_origen) = Len(retorno.nodos) - 1
        /\ Len(retorno.aristas_destino) = Len(retorno.nodos) - 1
        /\ retorno.nodos[1] = llamada.origen
        /\ SinRepetidos(retorno.nodos)
        /\ \A j \in 1..(Len(retorno.nodos) - 1) :
              /\ retorno.aristas_destino[j] = retorno.nodos[j + 1]
              /\ retorno.aristas_destino[j] \in Sucesores(retorno.aristas_origen[j])
              /\ \E i \in 1..j : retorno.nodos[i] = retorno.aristas_origen[j]

\* a fixpoint traversal of a graph with an edge into a visited node that the
\* tree does not use
C3_Witness ==
    /\ TravValido("dfs")
    /\ Rango(retorno.nodos) = DentroDe(llamada.origen, totalNodos)
    /\ Len(retorno.nodos) >= 3
    /\ \E u \in Rango(retorno.nodos) : \E v \in Sucesores(u) :
          <<u, v>> \notin Rango(Pares(retorno))

\* ---------------------------------------------------------------------- C4
RECURSIVE DfsRecursivo(_, _, _, _)
RECURSIVE DfsRecursivoVecinos(_, _, _, _, _)
\* the naive recursive depth-bounded DFS: mark on entry, then recurse into
\* the neighbours not yet visited, left to right
DfsRecursivo(st, u, nivel, d) ==
    LET st1 == [st EXCEPT !.vis = @ \cup {u}, !.nodos = Append(@, u)]
    IN  IF nivel >= d THEN st1
        ELSE DfsRecursivoVecinos(st1, u, nivel, d, 1)

DfsRecursivoVecinos(st, u, nivel, d, k) ==
    IF k > Len(ObtenerVecinos(u)) THEN st
    ELSE LET v == ObtenerVecinos(u)[k]
         IN  IF v \in st.vis THEN DfsRecursivoVecinos(st, u, nivel, d, k + 1)
             ELSE DfsRecursivoVecinos(
                     DfsRecursivo([st EXCEPT !.ao = Append(@, u), !.ad = Append(@, v)],
                                  v, nivel + 1, d),
                     u, nivel, d, k + 1)

DfsIngenuo(s, d) ==
    LET st == DfsRecursivo([vis |-> {}, nodos |-> << >>, ao |-> << >>, ad |-> << >>], s, 0, d)
    IN  [nodos |-> st.nodos, aristas_origen |-> st.ao, aristas_destino |-> st.ad]

\* C4: for a valid source and every maxDepth, the explicit-stack dfs returns
\* the visited order and the (parent, node) edges of the naive recursive
\* depth-bounded DFS.
C4_DfsIgualRecursivo ==
    (Retornado("dfs") /\ ~OrigenInvalido(llamada.origen)) =>
        retorno = DfsIngenuo(llamada.origen, Min2(llamada.profundidadMaxima, totalNodos))

\* a node with two unvisited neighbours was expanded, and a frame was
\* discarded because a sibling's subtree reached its node first
C4_Witness ==
    /\ Retornado("dfs")
    /\ ~OrigenInvalido(llamada.origen)
    /\ Len(retorno.nodos) >= 3
    /\ \E u \in Rango(retorno.nodos) : \E v \in Sucesores(u) :
          /\ v # u
          /\ Indice(retorno.nodos, u) < Indice(retorno.nodos, v)
          /\ <<u, v>> \notin Rango(Pares(retorno))

\* ---------------------------------------------------------------------- C8
\* C8: a query on bad input returns an empty result: obtenerVecinos for a
\* node outside [0, totalNodos) (which covers a graph never loaded), and bfs
\* and dfs for such a source or for a negative maxDepth.
C8_ConsultaInvalidaVacia ==
    /\ (Retornado("obtenerVecinos") /\ NodoFueraDeRango(llamada.nodo)) =>
          retorno = << >>
    /\ \A op \in {"bfs", "dfs"} :
          (Retornado(op) /\ (OrigenInvalido(llamada.origen) \/ llamada.prof < 0)) =>
              retorno = ResultadoVacio

\* ---------------------------------------------------------------------- C9
NoVisitados == Cardinality({ v \in DOMAIN visitado : visitado[v] = 0 })

\* a natural number that every loop iteration makes smaller
Medida ==
    CASE pc = "bfs"  -> Len(cola) + 2 * NoVisitados
      [] pc = "dfs1" -> Len(stack)
      [] pc = "dfs"  -> Len(pila) + (totalAristas + 2) * NoVisitados
      [] OTHER       -> 0

EnBucle == pc \in {"bfs", "dfs1", "dfs"}

C9_Cotas ==
    /\ EnBucle => Medida >= 0
    /\ pc = "bfs" =>
          /\ SinRepetidos(resultado.nodos)
          /\ \A i \in 1..Len(cola) : cola[i][1] \in Rango(resultado.nodos)
          /\ Len(cola) <= totalNodos
    /\ pc = "dfs1" => Len(stack) <= 1
    /\ pc = "dfs" =>
          /\ SinRepetidos(resultado.nodos)
          /\ Len(pila) <= totalAristas + 1
    /\ (Retornado("bfs") \/ Retornado("dfs")) =>
          /\ cola = << >> /\ stack = << >> /\ pila = << >>
          /\ SinRepetidos(retorno.nodos)

\* C9: bfs and dfs terminate with the frontier or stack empty: every loop
\* iteration lowers a natural-valued measure, a loop that cannot iterate
\* returns, BFS enqueues a node at most once, DFS marks a node at most once,
\* and the DFS stack never holds more than totalAristas + 1 frames.
C9_Termina ==
    [][ /\ C9_Cotas'
        /\ (EnBucle /\ pc' = pc) => Medida' < Medida
        /\ EnBucle' => (ENABLED (BfsIterar \/ BfsRetornar \/ DfsIterarPrimero
                                 \/ DfsReiniciar \/ DfsIterar \/ DfsRetornar))' ]_vars

\* C9, as a liveness property of the fair specification: a traversal that
\* entered a loop returns
C9_TerminaFair == EnBucle ~> (pc = "ret")

\* the stack holds two pending frames of one node, in a graph with a cycle
C9_Witness ==
    /\ pc = "dfs"
    /\ \E i, j \in DOMAIN pila : i < j /\ pila[i].nodo = pila[j].nodo
    /\ \E v \in DOMAIN visitado : v \in DentroDe(v, totalNodos) \ {v}
                                  \/ v \in Sucesores(v)

\* ---------------------------------------------------------------------- C5
RECURSIVE DestinosDe(_, _, _)
\* the destinations of the edges of `aristas` that leave u, in their order
DestinosDe(aristas, u, k) ==
    IF k > Len(aristas) THEN << >>
    ELSE (IF aristas[k][1] = u THEN <<aristas[k][2]>> ELSE << >>)
            \o DestinosDe(aristas, u, k + 1)

\* C5: for every node u, obtenerVecinos(u) is the sequence of destinations
\* of the edges the last successful load accepted with origin u, in the
\* order it accepted them (duplicates and self-loops kept, nothing left of
\* an earlier load, empty for a node that is no origin).
C5_VecinosEstables ==
    \A u \in Nodos : ObtenerVecinos(u) = DestinosDe(aceptadas, u, 1)

\* a load just accepted two edges of one origin, the larger destination first
C5_Witness ==
    /\ Retornado("cargarDatos")
    /\ retorno = TRUE
    /\ \E i, j \in DOMAIN aceptadas :
          /\ i < j
          /\ aceptadas[i][1] = aceptadas[j][1]
          /\ aceptadas[i][2] > aceptadas[j][2]

\* ---------------------------------------------------------------------- C6
IdsAceptados == { aceptadas[k][1] : k \in DOMAIN aceptadas }
                   \cup { aceptadas[k][2] : k \in DOMAIN aceptadas }

MaximoDe(S) == CHOOSE m \in S : \A x \in S : x <= m

\* C6: once a load has succeeded, in every later state the CSR structure is
\* well formed: totalNodos is the largest accepted id + 1, totalAristas the
\* number of accepted edges, rowPtr has totalNodos + 1 entries, starts at 0,
\* ends at totalAristas = size of colIndices, never decreases, grados[i] is
\* rowPtr[i + 1] - rowPtr[i], and every entry of colIndices is a node.
C6_CSRBienFormado ==
    aceptadas # << >> =>
        /\ totalNodos = MaximoDe(IdsAceptados) + 1
        /\ totalAristas = Len(aceptadas)
        /\ DOMAIN rowPtr = 0..totalNodos
        /\ DOMAIN grados = 0..(totalNodos - 1)
        /\ DOMAIN colIndices = 0..(totalAristas - 1)
        /\ rowPtr[0] = 0
        /\ rowPtr[totalNodos] = totalAristas
        /\ \A i \in 0..(totalNodos - 1) :
              /\ rowPtr[i] <= rowPtr[i + 1]
              /\ grados[i] = rowPtr[i + 1] - rowPtr[i]
        /\ \A i \in DOMAIN colIndices : colIndices[i] \in 0..(totalNodos - 1)

\* a built graph survived a failed load; its largest id is only a destination
C6_Witness ==
    /\ Retornado("cargarDatos")
    /\ retorno = FALSE
    /\ aceptadas # << >>
    /\ \A k \in DOMAIN aceptadas : aceptadas[k][1] < totalNodos - 1

\* ---------------------------------------------------------------------- C7
FalloAbrir == Retornado("cargarDatos") /\ ~llamada.abre

FalloVacio == Retornado("cargarDatos") /\ llamada.abre /\ llamada.lineasValidas = 0

PasoCargaFallida ==
    /\ pc = "idle"
    /\ pc' = "ret"
    /\ llamada'.op = "cargarDatos"
    /\ ~llamada'.abre \/ llamada'.lineasValidas = 0

\* C10: a load that fails (unopenable path, or no accepted edge) leaves
\* totalNodos, totalAristas, rowPtr, colIndices, grados and
\* ultimoTiempoCargaMs as they were, so the accessors answer as before; an
\* object on which no load succeeded is empty, with largest-degree node -1.
C10_CargaFallidaNoCambia ==
    [][ /\ PasoCargaFallida =>
            /\ UNCHANGED objeto
            /\ \A n \in Nodos : ObtenerVecinos(n)' = ObtenerVecinos(n)
            /\ ObtenerNodoMayorGrado' = ObtenerNodoMayorGrado
        /\ (aceptadas' = << >>) =>
            (totalNodos' = 0 /\ totalAristas' = 0 /\ ObtenerNodoMayorGrado' = -1) ]_vars

\* a load that accepted nothing has just returned on a built graph, and an
\* unopenable one returned before it
C10_Witness ==
    /\ FalloVacio
    /\ aceptadas # << >>
    /\ ultimoTiempoCargaMs > 0
    /\ <<"abrir", FALSE>> \in fallosVistos

====
